---- MODULE Spec2Model ----
(***************************************************************************)
(* A.E.G.I.S permission-gated tool execution core.                         *)
(*                                                                         *)
(*   core/permissions.py                  PermissionGate                   *)
(*   chatdev_bridge/permission_enforcer.py PermissionEnforcer              *)
(*   agents/tool_executor.py              ToolExecutorAgent                *)
(*   core/mode.py                         ModeManager                      *)
(*                                                                         *)
(* Python str values are TLA+ strings; Len, SubSeq and \o act on their     *)
(* characters.  Optional[str] is <<>> (None) or <<s>>.  A dict is the      *)
(* sequence of its <<key, value>> items in insertion order; a value is a   *)
(* record [t |-> type tag, v |-> str(value)].                              *)
(***************************************************************************)
EXTENDS Integers, Sequences, FiniteSets, TLC

VARIABLES
    request,          \* the call under study: [name, message, params]
    gate_result,      \* last value returned by PermissionGate.check_permission
    gate_mode,        \* ModeManager mode in force during that call
    normal_result,    \* value returned by the last call made in NORMAL mode
    current_mode,     \* ModeManager._current_mode
    mode_history,     \* ModeManager._mode_history
    mode_command,     \* argument of the last ModeManager.handle_command call
    command_result,   \* value returned by that call
    permission_mode,  \* PermissionEnforcer.permission_mode
    audit_log,        \* PermissionEnforcer.audit_log
    enf_result,       \* last value returned by PermissionEnforcer.check_operation
    heap,             \* the callers' context dict objects: reference -> dict
    held,             \* the list object a consumer got from get_audit_log
    first_check,      \* inputs and decision of the first check_operation call
    calls,            \* the check_operation calls running in worker threads
    last_call,        \* the operation performed last
    files,            \* file system: path -> content, NoFile when absent
    backups,          \* data/backups: backup file name -> content
    clock,            \* datetime.now() at one-second resolution
    effects,          \* side effects performed by the tool handlers
    pc,               \* position inside ToolExecutorAgent.process_task
    backup_path,      \* local backup_path of the running _delete_file
    task,             \* the task being processed
    result            \* last value returned by ToolExecutorAgent.process_task

vars == <<request, gate_result, gate_mode, normal_result, current_mode,
          mode_history, mode_command, command_result,
          permission_mode, audit_log, enf_result,
          heap, held, first_check, calls, last_call,
          files, backups, clock, effects, pc, backup_path, task, result>>

gateVars == <<gate_result, gate_mode, normal_result>>
modeVars == <<current_mode, mode_history, mode_command, command_result>>
enfVars  == <<permission_mode, audit_log, enf_result, heap, held,
              first_check, calls>>
execVars == <<files, backups, clock, effects, pc, backup_path, task, result>>

-----------------------------------------------------------------------------
(* Bounds *)

MaxHistory == 3   \* length of mode_history
MaxLog     == 2   \* entries kept in the audit log
MaxClock   == 1   \* seconds the clock may advance
NumThreads == 2   \* worker threads calling one enforcer

-----------------------------------------------------------------------------
(* Python string primitives *)

None == <<>>
Some(s) == <<s>>

UpperChars == "ABCDEFGHIJKLMNOPQRSTUVWXYZ"
LowerChars == "abcdefghijklmnopqrstuvwxyz"

\* str.lower() on one character
LowerChar(c) ==
    IF \E i \in 1..Len(UpperChars) : SubSeq(UpperChars, i, i) = c
    THEN LET i == CHOOSE j \in 1..Len(UpperChars) : SubSeq(UpperChars, j, j) = c
         IN  SubSeq(LowerChars, i, i)
    ELSE c

RECURSIVE Lower(_)
\* str.lower()
Lower(s) ==
    IF Len(s) = 0 THEN ""
    ELSE LowerChar(SubSeq(s, 1, 1)) \o Lower(SubSeq(s, 2, Len(s)))

\* needle in hay
Contains(needle, hay) ==
    \E i \in 1..(Len(hay) - Len(needle) + 1) :
        SubSeq(hay, i, i + Len(needle) - 1) = needle

RECURSIVE EscapeWith(_, _)
\* the body of repr(s): backslashes doubled, the quote character escaped
EscapeWith(s, q) ==
    IF Len(s) = 0 THEN ""
    ELSE LET c == SubSeq(s, 1, 1)
             r == EscapeWith(SubSeq(s, 2, Len(s)), q)
         IN  IF c = "\\" THEN "\\\\" \o r
             ELSE IF c = q THEN "\\" \o c \o r
             ELSE c \o r

\* repr() of a str
ReprStr(s) ==
    IF Contains("'", s) /\ ~Contains("\"", s)
    THEN "\"" \o EscapeWith(s, "\"") \o "\""
    ELSE "'" \o EscapeWith(s, "'") \o "'"

\* a str value, an int value, None
StrVal(s) == [t |-> "str", v |-> s]
IntVal(s) == [t |-> "int", v |-> s]
NoneVal == [t |-> "none", v |-> "None"]

\* str(value)
PyStr(val) == val.v

\* repr(value)
PyRepr(val) == IF val.t = "str" THEN ReprStr(val.v) ELSE val.v

RECURSIVE ReprItems(_)
ReprItems(d) ==
    IF Len(d) = 0 THEN ""
    ELSE ReprStr(d[1][1]) \o ": " \o PyRepr(d[1][2])
         \o (IF Len(d) > 1 THEN ", " ELSE "") \o ReprItems(Tail(d))

\* str(dict)
StrDict(d) == "{" \o ReprItems(d) \o "}"

\* key in dict
HasKey(d, k) == \E i \in 1..Len(d) : d[i][1] = k

\* dict[key]
Item(d, k) == d[CHOOSE i \in 1..Len(d) : d[i][1] = k][2]

\* dict[key] = value
SetItem(d, k, val) ==
    IF HasKey(d, k)
    THEN [i \in 1..Len(d) |-> IF d[i][1] = k THEN <<k, val>> ELSE d[i]]
    ELSE Append(d, <<k, val>>)

RECURSIVE RegexLiteral(_)
\* the text a regular expression made of literals and escaped characters
\* matches: a backslash escapes the character after it
RegexLiteral(p) ==
    IF Len(p) = 0 THEN ""
    ELSE IF SubSeq(p, 1, 1) = "\\" /\ Len(p) >= 2
         THEN SubSeq(p, 2, 2) \o RegexLiteral(SubSeq(p, 3, Len(p)))
         ELSE SubSeq(p, 1, 1) \o RegexLiteral(SubSeq(p, 2, Len(p)))

\* re.search(pattern, text) is not None, for such a pattern
re_search(pattern, text) == Contains(RegexLiteral(pattern), text)

-----------------------------------------------------------------------------
(* Inputs *)

Names ==
    {"read_file", "search_web", "write_file", "install_package",
     "delete_file", "format_drive", "modify_bios", "delete_system32",
     "delete_system32_now", "format_disk",
     "", "DELETE_FILE", "Write_File"}

Messages ==
    {"", "yesyesyes45", "YesYesYes45", "ok yesyesyes45 go", "yesyesyes4"}

ParamMaps ==
    { <<>>,
      << <<"path", StrVal("/tmp/a.txt")>> >>,
      << <<"path", StrVal("C:\\Windows\\System32\\test.dll")>> >>,
      << <<"path", StrVal("/etc/passwd")>> >>,
      << <<"path", StrVal("/ETC/Shadow")>> >>,
      << <<"path", StrVal("/tmp/a.txt")>>, <<"content", StrVal("cat /etc/shadow")>> >>,
      << <<"file", StrVal("c:\\windows\\boot\\bcd")>> >>,
      << <<"path", StrVal("/tmp/a.txt")>>, <<"content", StrVal("yesyesyes45")>> >> }

Requests == [name : Names, message : Messages, params : ParamMaps]

\* permission_mode arguments given to PermissionEnforcer(...)
ModeArgs == {"safe", "Risky", "DANGEROUS", "forbidden", "admin"}

\* the context mapping of a request: its parameters, with the code it
\* supplies, if any, under the key danger_code
ContextOf(req) ==
    IF req.message = "" THEN req.params
    ELSE Append(req.params, <<"danger_code", StrVal(req.message)>>)

\* the requests whose decisions are repeated
AuditRequests ==
    [name : {"read_file", "write_file", "delete_file"},
     message : {"", "yesyesyes45"},
     params : { << <<"path", StrVal("/tmp/a.txt")>> >> }]

\* operations the second caller asks for, with its own context dict
OtherOps == {"delete_file", "format_disk"}

\* values the caller later stores under context["path"]
LaterPaths == {"/tmp/a.txt", "c:\\windows\\win.ini"}

\* the context dict of the second caller
OtherContext == << <<"danger_code", StrVal("yesyesyes45")>> >>

-----------------------------------------------------------------------------
(* core/permissions.py: PermissionGate *)

DANGEROUS_CODE == "yesyesyes45"

SAFE_TOOLS ==
    {"read_file", "list_directory", "search_text", "web_search",
     "get_system_info", "git_status", "git_log", "git_diff",
     "check_file_exists", "get_file_info"}

RISKY_TOOLS ==
    {"write_file", "create_directory", "run_command",
     "git_commit", "git_push", "install_package",
     "copy_file", "move_file", "edit_file"}

DANGEROUS_TOOLS ==
    {"delete_file", "delete_directory", "force_delete",
     "kill_process", "modify_system_file", "format_drive",
     "change_network_config"}

FORBIDDEN_TOOLS ==
    {"modify_bios", "modify_uefi", "delete_system32",
     "disable_firewall", "install_rootkit"}

\* the raw string literals of the source: each holds two backslash
\* characters where the source shows two
FORBIDDEN_PATHS ==
    <<"C:\\\\Windows\\\\System32",
      "C:\\\\Windows\\\\SysWOW64",
      "/etc/passwd",
      "/etc/shadow",
      "C:\\\\Windows\\\\Boot">>

\* categorize_tool refusing every name it does not know
categorize_tool_known_only(tool_name) ==
    IF tool_name \in FORBIDDEN_TOOLS THEN "FORBIDDEN"
    ELSE IF tool_name \in DANGEROUS_TOOLS THEN "DANGEROUS"
    ELSE IF tool_name \in RISKY_TOOLS THEN "RISKY"
    ELSE IF tool_name \in SAFE_TOOLS THEN "SAFE"
    ELSE "FORBIDDEN"

categorize_tool(tool_name) ==
    IF tool_name \in FORBIDDEN_TOOLS THEN "FORBIDDEN"
    ELSE IF tool_name \in DANGEROUS_TOOLS THEN "DANGEROUS"
    ELSE IF tool_name \in RISKY_TOOLS THEN "RISKY"
    ELSE "SAFE"

has_permission_code(message) ==
    Contains(Lower(DANGEROUS_CODE), Lower(message))

contains_forbidden_path(params) ==
    LET param_str == Lower(StrDict(params))
    IN  \E i \in 1..Len(FORBIDDEN_PATHS) :
            re_search(Lower(FORBIDDEN_PATHS[i]), param_str)

\* check_permission with the confirmation code consulted before the
\* FORBIDDEN level
check_permission_code_first(tool_name, user_message, tool_params) ==
    LET level == categorize_tool(tool_name)
    IN  IF contains_forbidden_path(tool_params)
        THEN [allowed |-> FALSE,
              reason  |-> Some("Operation targets forbidden system paths")]
        ELSE IF level \in {"DANGEROUS", "FORBIDDEN"} /\ has_permission_code(user_message)
        THEN [allowed |-> TRUE, reason |-> None]
        ELSE IF level = "FORBIDDEN"
        THEN [allowed |-> FALSE,
              reason  |-> Some("Tool '" \o tool_name \o "' is permanently forbidden")]
        ELSE IF level = "DANGEROUS"
        THEN [allowed |-> FALSE,
              reason  |-> Some("Dangerous tool requires '" \o DANGEROUS_CODE
                               \o "' code in message")]
        ELSE [allowed |-> TRUE, reason |-> None]

\* check_permission with the code requirement lifted in MONSTER mode
check_permission_monster(tool_name, user_message, tool_params) ==
    LET level == categorize_tool(tool_name)
    IN  IF contains_forbidden_path(tool_params)
        THEN [allowed |-> FALSE,
              reason  |-> Some("Operation targets forbidden system paths")]
        ELSE IF level = "FORBIDDEN"
        THEN [allowed |-> FALSE,
              reason  |-> Some("Tool '" \o tool_name \o "' is permanently forbidden")]
        ELSE IF level = "DANGEROUS"
        THEN IF has_permission_code(user_message) \/ current_mode = "monster"
             THEN [allowed |-> TRUE, reason |-> None]
             ELSE [allowed |-> FALSE,
                   reason  |-> Some("Dangerous tool requires '" \o DANGEROUS_CODE
                                    \o "' code in message")]
        ELSE [allowed |-> TRUE, reason |-> None]

\* check_permission answering every denial with the same words
check_permission_generic_reason(tool_name, user_message, tool_params) ==
    LET level == categorize_tool(tool_name)
    IN  IF contains_forbidden_path(tool_params)
        THEN [allowed |-> FALSE, reason |-> Some("Permission denied")]
        ELSE IF level = "FORBIDDEN"
        THEN [allowed |-> FALSE, reason |-> Some("Permission denied")]
        ELSE IF level = "DANGEROUS"
        THEN IF has_permission_code(user_message)
             THEN [allowed |-> TRUE, reason |-> None]
             ELSE [allowed |-> FALSE, reason |-> Some("Permission denied")]
        ELSE [allowed |-> TRUE, reason |-> None]

\* check_permission looking for the code in the parameters as well
check_permission_code_anywhere(tool_name, user_message, tool_params) ==
    LET level == categorize_tool(tool_name)
    IN  IF contains_forbidden_path(tool_params)
        THEN [allowed |-> FALSE,
              reason  |-> Some("Operation targets forbidden system paths")]
        ELSE IF level = "FORBIDDEN"
        THEN [allowed |-> FALSE,
              reason  |-> Some("Tool '" \o tool_name \o "' is permanently forbidden")]
        ELSE IF level = "DANGEROUS"
        THEN IF \/ has_permission_code(user_message)
                \/ has_permission_code(StrDict(tool_params))
             THEN [allowed |-> TRUE, reason |-> None]
             ELSE [allowed |-> FALSE,
                   reason  |-> Some("Dangerous tool requires '" \o DANGEROUS_CODE
                                    \o "' code in message")]
        ELSE [allowed |-> TRUE, reason |-> None]

check_permission(tool_name, user_message, tool_params) ==
    LET level == categorize_tool(tool_name)
    IN  IF contains_forbidden_path(tool_params)
        THEN [allowed |-> FALSE,
              reason  |-> Some("Operation targets forbidden system paths")]
        ELSE IF level = "FORBIDDEN"
        THEN [allowed |-> FALSE,
              reason  |-> Some("Tool '" \o tool_name \o "' is permanently forbidden")]
        ELSE IF level = "DANGEROUS"
        THEN IF has_permission_code(user_message)
             THEN [allowed |-> TRUE, reason |-> None]
             ELSE [allowed |-> FALSE,
                   reason  |-> Some("Dangerous tool requires '" \o DANGEROUS_CODE
                                    \o "' code in message")]
        ELSE IF level = "RISKY"
        THEN [allowed |-> TRUE, reason |-> None]
        ELSE [allowed |-> TRUE, reason |-> None]

-----------------------------------------------------------------------------
(* chatdev_bridge/permission_enforcer.py: PermissionEnforcer *)

YESYESYES_CODE == "yesyesyes45"

forbidden_patterns ==
    <<"format_disk", "rm_rf_root", "modify_bios", "delete_system32",
      "kill_process_1">>

\* an ordinary string literal in the source: one backslash character
system_paths == <<"c:\\windows", "/system", "/boot", "system32">>

dangerous_ops ==
    {"delete_file", "delete_directory", "execute_system_command",
     "install_package", "modify_registry", "change_permissions"}

risky_ops ==
    {"write_file", "create_file", "modify_file", "create_directory",
     "move_file", "copy_file"}

\* dict.get(key, default)
Get(d, k, default) == IF HasKey(d, k) THEN Item(d, k) ELSE default

classify_operation(operation, context) ==
    IF \E i \in 1..Len(forbidden_patterns) :
           Contains(forbidden_patterns[i], Lower(operation))
    THEN "forbidden"
    ELSE IF /\ HasKey(context, "path")
            /\ LET path == Lower(PyStr(Item(context, "path")))
               IN  \E i \in 1..Len(system_paths) : Contains(system_paths[i], path)
    THEN "forbidden"
    ELSE IF operation \in dangerous_ops THEN "dangerous"
    ELSE IF operation \in risky_ops THEN "risky"
    ELSE "safe"

\* the arguments _classify_operation is called with
ClassifyCalls ==
    (Names \cup OtherOps)
    \X ({ContextOf(r) : r \in Requests}
        \cup {SetItem(ContextOf(r), "path", StrVal(p)) :
                  r \in AuditRequests, p \in LaterPaths}
        \cup {OtherContext})

\* _classify_operation evaluated once for each of them
ClassifyTable == {<<c, classify_operation(c[1], c[2])>> : c \in ClassifyCalls}

\* tier = self._classify_operation(operation, context)
tier_of(operation, context) ==
    (CHOOSE e \in ClassifyTable : e[1] = <<operation, context>>)[2]

\* the entry _log_attempt appends; context is the reference it was passed
log_entry(operation, tier, context) ==
    [operation |-> operation, tier |-> tier,
     mode |-> permission_mode, context |-> context]

\* check_operation taking the code of an earlier approved call as standing
\* approval
check_operation_remembering(operation, context) ==
    LET tier == tier_of(operation, context)
        approved(c) == Get(c, "danger_code", StrVal("")) = StrVal(YESYESYES_CODE)
    IN  IF tier = "safe"
        THEN [allowed |-> TRUE, reason |-> "SAFE operation"]
        ELSE IF tier = "risky"
        THEN IF permission_mode \in {"risky", "dangerous"}
             THEN [allowed |-> TRUE,
                   reason  |-> "RISKY operation allowed in " \o permission_mode
                               \o " mode"]
             ELSE [allowed |-> FALSE,
                   reason  |-> "RISKY operation blocked in " \o permission_mode
                               \o " mode. Set permission_mode to 'risky' or higher."]
        ELSE IF tier = "dangerous"
        THEN IF \/ approved(context)
                \/ \E i \in 1..Len(audit_log) :
                       /\ audit_log[i].tier = "dangerous"
                       /\ approved(heap[audit_log[i].context])
             THEN [allowed |-> TRUE,
                   reason  |-> "DANGEROUS operation allowed with correct code"]
             ELSE [allowed |-> FALSE,
                   reason  |-> "DANGEROUS operation requires yesyesyes45 code. This must be provided in workflow config or human approval."]
        ELSE [allowed |-> FALSE, reason |-> "FORBIDDEN operation - never allowed"]

\* the value check_operation returns
\* check_operation allowing RISKY operations in every mode but "safe"
check_operation_fail_open(mode, operation, context) ==
    LET tier == tier_of(operation, context)
    IN  IF tier = "safe"
        THEN [allowed |-> TRUE, reason |-> "SAFE operation"]
        ELSE IF tier = "risky"
        THEN IF mode # "safe"
             THEN [allowed |-> TRUE,
                   reason  |-> "RISKY operation allowed in " \o mode
                               \o " mode"]
             ELSE [allowed |-> FALSE,
                   reason  |-> "RISKY operation blocked in " \o mode
                               \o " mode. Set permission_mode to 'risky' or higher."]
        ELSE IF tier = "dangerous"
        THEN IF Get(context, "danger_code", StrVal("")) = StrVal(YESYESYES_CODE)
             THEN [allowed |-> TRUE,
                   reason  |-> "DANGEROUS operation allowed with correct code"]
             ELSE [allowed |-> FALSE,
                   reason  |-> "DANGEROUS operation requires yesyesyes45 code. This must be provided in workflow config or human approval."]
        ELSE [allowed |-> FALSE, reason |-> "FORBIDDEN operation - never allowed"]

\* check_operation allowing RISKY operations in "risky" mode only
check_operation_risky_only(mode, operation, context) ==
    LET tier == tier_of(operation, context)
    IN  IF tier = "safe"
        THEN [allowed |-> TRUE, reason |-> "SAFE operation"]
        ELSE IF tier = "risky"
        THEN IF mode = "risky"
             THEN [allowed |-> TRUE,
                   reason  |-> "RISKY operation allowed in " \o mode
                               \o " mode"]
             ELSE [allowed |-> FALSE,
                   reason  |-> "RISKY operation blocked in " \o mode
                               \o " mode. Set permission_mode to 'risky' or higher."]
        ELSE IF tier = "dangerous"
        THEN IF Get(context, "danger_code", StrVal("")) = StrVal(YESYESYES_CODE)
             THEN [allowed |-> TRUE,
                   reason  |-> "DANGEROUS operation allowed with correct code"]
             ELSE [allowed |-> FALSE,
                   reason  |-> "DANGEROUS operation requires yesyesyes45 code. This must be provided in workflow config or human approval."]
        ELSE [allowed |-> FALSE, reason |-> "FORBIDDEN operation - never allowed"]

\* check_operation, self.permission_mode being mode
check_operation_in(mode, operation, context) ==
    LET tier == tier_of(operation, context)
    IN  IF tier = "safe"
        THEN [allowed |-> TRUE, reason |-> "SAFE operation"]
        ELSE IF tier = "risky"
        THEN IF mode \in {"risky", "dangerous"}
             THEN [allowed |-> TRUE,
                   reason  |-> "RISKY operation allowed in " \o mode
                               \o " mode"]
             ELSE [allowed |-> FALSE,
                   reason  |-> "RISKY operation blocked in " \o mode
                               \o " mode. Set permission_mode to 'risky' or higher."]
        ELSE IF tier = "dangerous"
        THEN IF Get(context, "danger_code", StrVal("")) = StrVal(YESYESYES_CODE)
             THEN [allowed |-> TRUE,
                   reason  |-> "DANGEROUS operation allowed with correct code"]
             ELSE [allowed |-> FALSE,
                   reason  |-> "DANGEROUS operation requires yesyesyes45 code. This must be provided in workflow config or human approval."]
        ELSE [allowed |-> FALSE, reason |-> "FORBIDDEN operation - never allowed"]

check_operation(operation, context) ==
    check_operation_in(permission_mode, operation, context)

-----------------------------------------------------------------------------
(* Decision calls *)

NoFile == "<absent>"
Paths == {"/tmp/a.txt", "/tmp/b/a.txt", "/etc/passwd"}
Idle == [tool |-> "", params |-> <<>>, user_message |-> ""]

InitGate ==
    /\ gate_result = None
    /\ gate_mode = "normal"
    /\ normal_result = None

\* ModeManager.__init__ with the default initial_mode
InitMode ==
    /\ current_mode = "normal"
    /\ mode_history = <<"normal">>
    /\ mode_command = None
    /\ command_result = None

InitExec ==
    /\ files = [p \in Paths |-> IF p = "/etc/passwd" THEN "root" ELSE NoFile]
    /\ backups = {}
    /\ clock = 0
    /\ effects = {}
    /\ pc = "idle"
    /\ backup_path = None
    /\ task = Idle
    /\ result = None

Threads == 1..NumThreads
IdleCall ==
    [pc |-> "idle", operation |-> "", context |-> 0, tier |-> "",
     decision |-> None]

\* self.audit_log = [], no call made yet; the caller of the request holds
\* its context dict as object 1, another caller holds object 2
InitLog ==
    /\ audit_log = <<>>
    /\ enf_result = None
    /\ heap = <<ContextOf(request), OtherContext>>
    /\ held = "none"
    /\ first_check = None
    /\ calls = [th \in Threads |-> IdleCall]
    /\ last_call = ""

\* PermissionEnforcer.__init__
InitEnforcer ==
    /\ permission_mode \in {Lower(m) : m \in ModeArgs}
    /\ InitLog

\* check_permission evaluated once for each request
RequestGateTable ==
    {<<r, check_permission(r.name, r.message, r.params)>> : r \in Requests}

\* check_permission(tool_name, user_message, tool_params) for the request
gate_of(r) == (CHOOSE e \in RequestGateTable : e[1] = r)[2]

\* a call of check_permission that lets MONSTER mode stand for the code
GateCheckMonster ==
    LET d == check_permission_monster(request.name, request.message,
                                      request.params)
    IN  /\ gate_result' = Some(d)
        /\ gate_mode' = current_mode
        /\ normal_result' = IF current_mode = "normal" THEN Some(d)
                            ELSE normal_result
        /\ last_call' = "check_permission"
        /\ UNCHANGED <<request, modeVars, enfVars, execVars>>

\* a call of PermissionGate.check_permission on the request
GateCheck ==
    LET d == gate_of(request)
    IN  /\ gate_result' = Some(d)
        /\ gate_mode' = current_mode
        /\ normal_result' = IF current_mode = "normal" THEN Some(d)
                            ELSE normal_result
        /\ last_call' = "check_permission"
        /\ UNCHANGED <<request, modeVars, enfVars, execVars>>

\* check_operation logging after the decision, and only the denials
check_operation_call_denials_only(operation, ref) ==
    LET context  == heap[ref]
        tier     == tier_of(operation, context)
        decision == check_operation(operation, context)
    IN  /\ Len(audit_log) < MaxLog
        /\ audit_log' = IF decision.allowed THEN audit_log
                        ELSE Append(audit_log, log_entry(operation, tier, ref))
        /\ enf_result' = Some(decision)
        /\ first_check' = IF first_check = None
                          THEN Some([operation |-> operation,
                                     context |-> context,
                                     decision |-> decision])
                          ELSE first_check
        /\ last_call' = "check_operation"
        /\ UNCHANGED <<permission_mode, heap, held, calls>>

\* PermissionEnforcer.check_operation(operation, context), the context
\* being the dict object with reference ref
check_operation_call(operation, ref) ==
    LET context  == heap[ref]
        tier     == tier_of(operation, context)
        decision == check_operation(operation, context)
    IN  /\ Len(audit_log) < MaxLog
        /\ audit_log' = Append(audit_log, log_entry(operation, tier, ref))
        /\ enf_result' = Some(decision)
        /\ first_check' = IF first_check = None
                          THEN Some([operation |-> operation,
                                     context |-> context,
                                     decision |-> decision])
                          ELSE first_check
        /\ last_call' = "check_operation"
        /\ UNCHANGED <<permission_mode, heap, held, calls>>

\* a call of PermissionEnforcer.check_operation on the request
CheckOperation ==
    /\ check_operation_call(request.name, 1)
    /\ UNCHANGED <<request, gateVars, modeVars, execVars>>

InitDecide ==
    /\ request \in Requests
    /\ InitGate /\ InitMode /\ InitEnforcer /\ InitExec

NextDecide == GateCheck \/ CheckOperation

SpecDecide == InitDecide /\ [][NextDecide]_vars

-----------------------------------------------------------------------------
(* Vocabulary of the properties *)

\* the paths the FORBIDDEN_PATHS entries denote
ForbiddenPathTexts ==
    <<"C:\\Windows\\System32", "C:\\Windows\\SysWOW64", "/etc/passwd",
      "/etc/shadow", "C:\\Windows\\Boot">>

\* the forbidden path substrings of the enforcer's policy
EnforcerForbiddenTexts ==
    <<"system32", "c:\\windows", "/boot", "/etc/passwd", "/etc/shadow">>

\* some value of the mapping contains one of the texts, in any letter case
ValueMentions(d, texts) ==
    \E i \in 1..Len(d), j \in 1..Len(texts) :
        Contains(Lower(texts[j]), Lower(PyStr(d[i][2])))

\* the mapping refers to no forbidden path of either policy
PlainParams(d) ==
    /\ ~ValueMentions(d, ForbiddenPathTexts)
    /\ ~ValueMentions(d, EnforcerForbiddenTexts)
    /\ ~ValueMentions(d, system_paths)

\* the text contains the confirmation token as a case-insensitive substring
HasToken(text) == Contains("yesyesyes45", Lower(text))

GateCalled == gate_result # None
GateAllowed == gate_result[1].allowed
EnforcerCalled == enf_result # None
EnforcerAllowed == enf_result[1].allowed
LoggedTier == audit_log[Len(audit_log)].tier

ForbiddenPathDenial ==
    [allowed |-> FALSE,
     reason  |-> Some("Operation targets forbidden system paths")]

TmpFileParams == << <<"path", StrVal("/tmp/a.txt")>> >>

-----------------------------------------------------------------------------
(* Properties of the decision functions, under SpecDecide *)

\* C1: PermissionGate.check_permission returns allowed = false for every
\* tool name and every user message whenever a value of tool_params
\* contains a FORBIDDEN_PATHS entry in any letter case, Windows paths with
\* backslash separators included.
C1_ForbiddenPathDenied ==
    (GateCalled /\ ValueMentions(request.params, ForbiddenPathTexts))
        => ~GateAllowed

\* C2: for every operation name in the forbidden set (FORBIDDEN_TOOLS for the
\* gate, a name containing a forbidden pattern for the enforcer) the decision
\* is allowed = false in every mode, for every parameter map, with or
\* without the confirmation code.
C2_ForbiddenNameDenied ==
    /\ (GateCalled /\ request.name \in FORBIDDEN_TOOLS) => ~GateAllowed
    /\ (/\ EnforcerCalled
        /\ \E i \in 1..Len(forbidden_patterns) :
               Contains(forbidden_patterns[i], request.name))
           => ~EnforcerAllowed

C2_Witness ==
    /\ GateCalled /\ EnforcerCalled
    /\ request.name = "modify_bios"
    /\ request.message = "yesyesyes45"
    /\ request.params = TmpFileParams
    /\ permission_mode = "dangerous"

\* C3: for every DANGEROUS-tier operation whose parameters contain no
\* forbidden path, the decision is allowed = true if and only if the supplied
\* justification contains the token yesyesyes45 as a case-insensitive
\* substring, in every permission mode.
C3_DangerousIffToken ==
    /\ (/\ GateCalled
        /\ categorize_tool(request.name) = "DANGEROUS"
        /\ PlainParams(request.params))
           => (GateAllowed <=> HasToken(request.message))
    /\ (/\ EnforcerCalled
        /\ classify_operation(request.name, ContextOf(request)) = "dangerous"
        /\ PlainParams(request.params))
           => (EnforcerAllowed <=> HasToken(request.message))

\* C4: for every RISKY-tier operation whose parameters contain no forbidden
\* path, the decision is allowed = false when the caller's permission mode is
\* safe and allowed = true when it is risky; write_file to /tmp/a.txt is
\* denied for a safe-mode caller by check_operation and by the gate.
C4_RiskyNeedsMode ==
    /\ (/\ EnforcerCalled
        /\ classify_operation(request.name, ContextOf(request)) = "risky"
        /\ PlainParams(request.params))
           => /\ permission_mode = "safe" => ~EnforcerAllowed
              /\ permission_mode = "risky" => EnforcerAllowed
    /\ (/\ GateCalled
        /\ permission_mode = "safe"
        /\ request.name = "write_file"
        /\ request.params = TmpFileParams)
           => ~GateAllowed

\* C5: check_operation returns allowed = false, in every mode and with any
\* danger_code, whenever some parameter value contains a forbidden path
\* substring, whatever the operation name and whichever key holds the path.
C5_EnforcerForbiddenPathDenied ==
    (EnforcerCalled /\ ValueMentions(request.params, EnforcerForbiddenTexts))
        => ~EnforcerAllowed

\* C8: the forbidden-path check takes precedence over every tier rule: when
\* the parameters contain a forbidden path the decision is the forbidden-path
\* denial whatever the tier of the operation name, and the tier recorded for
\* the decision is forbidden.
C8_ForbiddenPathFirst ==
    /\ (GateCalled /\ ValueMentions(request.params, ForbiddenPathTexts))
           => gate_result[1] = ForbiddenPathDenial
    /\ (EnforcerCalled /\ ValueMentions(request.params, EnforcerForbiddenTexts))
           => (~EnforcerAllowed /\ LoggedTier = "forbidden")

\* C9: the operation name format_disk with empty parameters is denied under
\* every mode, with or without the confirmation code, by check_operation and
\* by check_permission.
C9_FormatDiskDenied ==
    (request.name = "format_disk" /\ request.params = <<>>)
        => /\ GateCalled => ~GateAllowed
           /\ EnforcerCalled => ~EnforcerAllowed

-----------------------------------------------------------------------------
(* core/mode.py: ModeManager, and the gate under mode switches *)

Modes == {"normal", "monster", "hat"}

\* ModeManager.switch_mode
SwitchMode(new_mode) ==
    /\ IF current_mode = new_mode
       THEN UNCHANGED modeVars
       ELSE /\ Len(mode_history) < MaxHistory
            /\ current_mode' = new_mode
            /\ mode_history' = Append(mode_history, new_mode)
            /\ UNCHANGED <<mode_command, command_result>>
    /\ UNCHANGED <<request, last_call, gateVars, enfVars, execVars>>

InitModes ==
    /\ request \in Requests
    /\ InitGate /\ InitMode /\ InitExec
    /\ permission_mode = "safe"
    /\ InitLog

NextModes == GateCheck \/ \E new_mode \in Modes : SwitchMode(new_mode)

SpecModes == InitModes /\ [][NextModes]_vars

\* C10: the gate's decision does not depend on the mode held by ModeManager:
\* after any sequence of mode switches check_permission still denies a
\* DANGEROUS tool without the code and allows it with the code, and returns
\* for every input the decision it returns in NORMAL mode.
C10_GateIgnoresMode ==
    GateCalled =>
        /\ normal_result # None => gate_result = normal_result
        /\ (/\ categorize_tool(request.name) = "DANGEROUS"
            /\ PlainParams(request.params))
               => /\ request.message = "" => ~GateAllowed
                  /\ request.message = "yesyesyes45" => GateAllowed

C10_Witness ==
    /\ GateCalled
    /\ gate_mode = "monster"
    /\ normal_result # None
    /\ Len(mode_history) = 3
    /\ request.name = "delete_file"
    /\ request.message = ""
    /\ request.params = TmpFileParams
    /\ ~GateAllowed

-----------------------------------------------------------------------------
(* agents/tool_executor.py: ToolExecutorAgent *)

Tools ==
    {"read_file", "write_file", "delete_file", "list_directory",
     "run_command", "check_file_exists", "search_web", "read_url",
     "analyze_code", "run_tests", "modify_bios"}

TaskParams ==
    { <<>>,
      << <<"path", StrVal("/tmp/a.txt")>>, <<"content", StrVal("x")>> >>,
      << <<"path", StrVal("/tmp/b/a.txt")>>, <<"content", StrVal("y")>> >>,
      << <<"path", StrVal("/etc/passwd")>>, <<"content", StrVal("x")>> >>,
      << <<"command", StrVal("ls")>>, <<"query", StrVal("tla")>>,
         <<"url", StrVal("http://example.org")>> >> }

TaskMessages == {"", "yesyesyes45"}

Tasks == [tool : Tools, params : TaskParams, user_message : TaskMessages]

\* the value PermissionGate.check_permission returns for each task
GateTable ==
    {<<t, check_permission(t.tool, t.user_message, t.params)>> : t \in Tasks}

GateAnswer(t) == (CHOOSE e \in GateTable : e[1] = t)[2]

\* the permission check made with the task's parameters left out
PermissionWithoutParams(t) == check_permission(t.tool, t.user_message, <<>>)

\* process_task: check_permission(tool_name, user_message, tool_params)
Permission(t) == GateAnswer(t)

Denial(reason) ==
    [success |-> FALSE, error |-> reason, permission_denied |-> TRUE]
Failure(error, tool_name) ==
    [success |-> FALSE, error |-> error, tool |-> tool_name]
Success(res, tool_name) ==
    [success |-> TRUE, result |-> res, tool |-> tool_name]
UnknownTool(tool_name) ==
    [success |-> FALSE, error |-> "Unknown tool: " \o tool_name]

\* str(KeyError(key))
KeyError(key) == "'" \o key \o "'"
\* str(PermissionError) raised by the operating system
OSError(path) == "[Errno 13] Permission denied: '" \o path \o "'"

\* Path.exists()
Exists(path) == path \in DOMAIN files /\ files[path] # NoFile

RECURSIVE Basename(_)
\* Path(p).name
Basename(p) ==
    IF Contains("/", p)
    THEN LET i == CHOOSE j \in 1..Len(p) : SubSeq(p, j, j) = "/"
         IN  Basename(SubSeq(p, i + 1, Len(p)))
    ELSE p

Digits == "0123456789"
\* datetime.now().strftime("%Y%m%d_%H%M%S"), the clock counting seconds
Timestamp(now) ==
    "20260101_0000" \o SubSeq(Digits, (now \div 10) + 1, (now \div 10) + 1)
                    \o SubSeq(Digits, (now % 10) + 1, (now % 10) + 1)

\* PermissionGate.create_backup_path
create_backup_path(original_path) ==
    "data/backups/" \o Basename(original_path) \o ".backup_" \o Timestamp(clock)

\* the handler returns or raises: process_task returns res
Return(res, eff) ==
    /\ result' = Some(res)
    /\ effects' = eff
    /\ pc' = "idle"
    /\ backup_path' = None

read_file(t) ==
    /\ IF ~HasKey(t.params, "path")
       THEN Return(Failure(KeyError("path"), t.tool), {})
       ELSE LET path == PyStr(Item(t.params, "path"))
            IN  IF ~Exists(path)
                THEN Return(Failure("File not found: " \o path, t.tool), {})
                ELSE Return(Success([path |-> path, content |-> files[path]],
                                    t.tool), {})
    /\ UNCHANGED <<files, backups>>

write_file(t) ==
    IF ~HasKey(t.params, "path")
    THEN Return(Failure(KeyError("path"), t.tool), {})
         /\ UNCHANGED <<files, backups>>
    ELSE IF ~HasKey(t.params, "content")
    THEN Return(Failure(KeyError("content"), t.tool), {})
         /\ UNCHANGED <<files, backups>>
    ELSE LET path    == PyStr(Item(t.params, "path"))
             content == PyStr(Item(t.params, "content"))
         IN  \/ /\ files' = [files EXCEPT ![path] = content]
                /\ Return(Success([path |-> path, size |-> Len(content),
                                   created |-> TRUE], t.tool), {"write"})
                /\ UNCHANGED backups
             \/ /\ Return(Failure(OSError(path), t.tool), {})
                /\ UNCHANGED <<files, backups>>

list_directory(t) ==
    /\ IF ~HasKey(t.params, "path")
       THEN Return(Failure(KeyError("path"), t.tool), {})
       ELSE LET path == PyStr(Item(t.params, "path"))
            IN  IF ~Exists(path)
                THEN Return(Failure("Directory not found: " \o path, t.tool), {})
                ELSE Return(Failure("Not a directory: " \o path, t.tool), {})
    /\ UNCHANGED <<files, backups>>

check_file_exists(t) ==
    /\ IF ~HasKey(t.params, "path")
       THEN Return(Failure(KeyError("path"), t.tool), {})
       ELSE LET path == PyStr(Item(t.params, "path"))
            IN  Return(Success([path |-> path, exists |-> Exists(path)],
                               t.tool), {})
    /\ UNCHANGED <<files, backups>>

run_command(t) ==
    /\ IF ~HasKey(t.params, "command")
       THEN Return(Failure(KeyError("command"), t.tool), {})
       ELSE LET command == PyStr(Item(t.params, "command"))
            IN  \/ \E exit_code \in {0, 1} :
                       Return(Success([command |-> command,
                                       exit_code |-> exit_code,
                                       success |-> exit_code = 0], t.tool),
                              {"spawn"})
                \/ Return(Failure("Command '" \o command
                                  \o "' timed out after 30 seconds", t.tool),
                          {"spawn"})
    /\ UNCHANGED <<files, backups>>

\* _search_web and _read_url: one HTTP request, which succeeds or raises
fetch(t, key) ==
    /\ IF ~HasKey(t.params, key)
       THEN Return(Failure(KeyError(key), t.tool), {})
       ELSE \/ Return(Success([request |-> PyStr(Item(t.params, key))],
                              t.tool), {"network"})
            \/ Return(Failure("Search failed with status 500", t.tool),
                      {"network"})
    /\ UNCHANGED <<files, backups>>

\* _analyze_code and _run_tests: subprocess.run without a timeout
subprocess_tool(t) ==
    /\ IF ~HasKey(t.params, "path")
       THEN Return(Failure(KeyError("path"), t.tool), {})
       ELSE LET path == PyStr(Item(t.params, "path"))
            IN  \/ \E exit_code \in {0, 1} :
                       Return(Success([path |-> path, exit_code |-> exit_code],
                                      t.tool), {"spawn"})
                \/ /\ pc' = "blocked"
                   /\ effects' = {"spawn"}
                   /\ UNCHANGED <<result, backup_path>>
    /\ UNCHANGED <<files, backups>>

\* ToolExecutorAgent.process_task, up to the entry of _delete_file
ProcessTask(t) ==
    /\ pc = "idle"
    /\ task' = t
    /\ IF ~Permission(t).allowed
       THEN /\ Return(Denial(Permission(t).reason), {})
            /\ UNCHANGED <<files, backups>>
       ELSE CASE t.tool = "read_file" -> read_file(t)
              [] t.tool = "write_file" -> write_file(t)
              [] t.tool = "delete_file" ->
                     /\ pc' = "delete_file"
                     /\ effects' = {}
                     /\ UNCHANGED <<result, backup_path, files, backups>>
              [] t.tool = "list_directory" -> list_directory(t)
              [] t.tool = "run_command" -> run_command(t)
              [] t.tool = "check_file_exists" -> check_file_exists(t)
              [] t.tool = "search_web" -> fetch(t, "query")
              [] t.tool = "read_url" -> fetch(t, "url")
              [] t.tool \in {"analyze_code", "run_tests"} -> subprocess_tool(t)
              [] OTHER -> /\ Return(UnknownTool(t.tool), {})
                          /\ UNCHANGED <<files, backups>>
    /\ UNCHANGED <<clock, request, last_call, gateVars, modeVars, enfVars>>

\* _delete_file going on to the unlink when the copy raised
DeleteFileBackupUnchecked ==
    /\ pc = "delete_file"
    /\ IF ~HasKey(task.params, "path")
       THEN /\ Return(Failure(KeyError("path"), task.tool), effects)
            /\ UNCHANGED <<files, backups>>
       ELSE LET path == PyStr(Item(task.params, "path"))
                bp   == create_backup_path(path)
            IN  IF ~Exists(path)
                THEN /\ Return(Failure("File not found: " \o path, task.tool),
                               effects)
                     /\ UNCHANGED <<files, backups>>
                ELSE /\ \/ backups' = {b \in backups : b.name # bp}
                                      \cup {[name |-> bp, content |-> files[path]]}
                        \/ backups' = backups
                     /\ backup_path' = Some(bp)
                     /\ effects' = effects \cup {"backup"}
                     /\ pc' = "delete_unlink"
                     /\ UNCHANGED <<files, result>>
    /\ UNCHANGED <<clock, task, request, last_call, gateVars, modeVars, enfVars>>

\* _delete_file: the existence check and the backup copy
DeleteFileBackup ==
    /\ pc = "delete_file"
    /\ IF ~HasKey(task.params, "path")
       THEN /\ Return(Failure(KeyError("path"), task.tool), effects)
            /\ UNCHANGED <<files, backups>>
       ELSE LET path == PyStr(Item(task.params, "path"))
                bp   == create_backup_path(path)
            IN  IF ~Exists(path)
                THEN /\ Return(Failure("File not found: " \o path, task.tool),
                               effects)
                     /\ UNCHANGED <<files, backups>>
                ELSE \/ /\ backups' = {b \in backups : b.name # bp}
                                      \cup {[name |-> bp, content |-> files[path]]}
                        /\ backup_path' = Some(bp)
                        /\ effects' = effects \cup {"backup"}
                        /\ pc' = "delete_unlink"
                        /\ UNCHANGED <<files, result>>
                     \/ /\ Return(Failure(OSError(bp), task.tool), effects)
                        /\ UNCHANGED <<files, backups>>
    /\ UNCHANGED <<clock, task, request, last_call, gateVars, modeVars, enfVars>>

\* _delete_file: the unlink, and the return of process_task
DeleteFileUnlink ==
    /\ pc = "delete_unlink"
    /\ LET path == PyStr(Item(task.params, "path"))
       IN  \/ /\ files' = [files EXCEPT ![path] = NoFile]
              /\ Return(Success([path |-> path, deleted |-> TRUE,
                                 backup |-> backup_path[1]], task.tool),
                        effects \cup {"delete"})
           \/ /\ Return(Failure(OSError(path), task.tool), effects)
              /\ UNCHANGED files
    /\ UNCHANGED <<backups, clock, task, request, last_call, gateVars, modeVars, enfVars>>

\* the process dies while a task is running
Crash ==
    /\ pc # "idle"
    /\ pc' = "idle"
    /\ backup_path' = None
    /\ result' = None
    /\ UNCHANGED <<files, backups, clock, effects, task,
                   request, last_call, gateVars, modeVars, enfVars>>

\* a second passes
Tick ==
    /\ clock < MaxClock
    /\ clock' = clock + 1
    /\ UNCHANGED <<files, backups, effects, pc, backup_path, task, result,
                   request, last_call, gateVars, modeVars, enfVars>>

InitExecutor ==
    /\ request = [name |-> "", message |-> "", params |-> <<>>]
    /\ InitGate /\ InitMode /\ InitExec
    /\ permission_mode = "safe"
    /\ InitLog

NextExecutor ==
    \/ \E t \in Tasks : ProcessTask(t)
    \/ DeleteFileBackup
    \/ DeleteFileUnlink
    \/ Crash
    \/ Tick

SpecExecutor == InitExecutor /\ [][NextExecutor]_vars

-----------------------------------------------------------------------------
(* Properties of ToolExecutorAgent, under SpecExecutor *)

\* C6: process_task runs a tool handler only after the gate returned
\* allowed = true for that same request: whenever check_permission denies, no
\* file is written or deleted, no subprocess is spawned, no network request
\* is made, and the result is {success: false, error: the gate's reason,
\* permission_denied: true}.
C6_NoEffectWithoutPermission ==
    /\ [](task # Idle =>
            /\ (effects # {} \/ pc # "idle") => GateAnswer(task).allowed
            /\ (~GateAnswer(task).allowed /\ result # None)
                   => /\ result[1] = Denial(GateAnswer(task).reason)
                      /\ effects = {})
    /\ [][(pc = "idle" /\ task' # Idle /\ ~GateAnswer(task').allowed)
              => UNCHANGED <<files, backups>>]_vars

C6_Witness ==
    /\ task = [tool |-> "delete_file",
               params |-> << <<"path", StrVal("/tmp/a.txt")>>,
                             <<"content", StrVal("x")>> >>,
               user_message |-> ""]
    /\ files["/tmp/a.txt"] = "x"
    /\ result = Some([success |-> FALSE,
                      error |-> Some("Dangerous tool requires 'yesyesyes45' code in message"),
                      permission_denied |-> TRUE])
    /\ effects = {}

\* C7: delete_file follows the backup-then-delete protocol: the original file
\* is unlinked only after a backup copy of it has been written; if creating
\* the backup fails the deletion is aborted, the original file still exists
\* and a failure is returned; no reachable state, a crash between the two
\* steps included, has the file deleted without a backup.
C7_BackupThenDelete ==
    /\ []("delete" \in effects => "backup" \in effects)
    /\ [][\A p \in Paths :
              (files[p] # NoFile /\ files'[p] = NoFile)
                  => /\ backup_path # None
                     /\ [name |-> backup_path[1], content |-> files[p]] \in backups
                     /\ backups' = backups]_vars
    /\ [][(pc = "delete_file" /\ pc' = "idle" /\ result' # None)
              => (files' = files /\ ~result'[1].success)]_vars

C7_Witness ==
    /\ task.tool = "delete_file"
    /\ pc = "idle"
    /\ effects = {"backup", "delete"}
    /\ files["/tmp/a.txt"] = NoFile
    /\ [name |-> "data/backups/a.txt.backup_20260101_000001", content |-> "x"]
           \in backups
    /\ result = Some(Success([path |-> "/tmp/a.txt", deleted |-> TRUE,
                              backup |-> "data/backups/a.txt.backup_20260101_000001"],
                             "delete_file"))

-----------------------------------------------------------------------------
(* chatdev_bridge/permission_enforcer.py: the audit log and its users *)

\* a call of check_operation by the second caller
OtherCheckOperation ==
    /\ \E operation \in OtherOps : check_operation_call(operation, 2)
    /\ UNCHANGED <<request, gateVars, modeVars, execVars>>

\* PermissionEnforcer.get_audit_log: returns self.audit_log, the list object
\* itself, which a consumer of AEGISAgentNode.execute's metadata then holds
GetAuditLog ==
    /\ held' = "audit_log"
    /\ last_call' = "get_audit_log"
    /\ UNCHANGED <<request, permission_mode, audit_log, enf_result, heap,
                   first_check, calls, gateVars, modeVars, execVars>>

\* PermissionEnforcer.clear_audit_log: self.audit_log is bound to a new
\* list; a list handed out earlier is no longer the enforcer's
ClearAuditLog ==
    /\ audit_log' = <<>>
    /\ held' = IF held = "audit_log" THEN "old list" ELSE held
    /\ last_call' = "clear_audit_log"
    /\ UNCHANGED <<request, permission_mode, enf_result, heap, first_check,
                   calls, gateVars, modeVars, execVars>>

\* the caller of the request assigns context["path"] in the dict it had
\* passed to check_operation
CallerMutatesContext ==
    /\ \E path \in LaterPaths :
           heap' = [heap EXCEPT ![1] = SetItem(heap[1], "path", StrVal(path))]
    /\ last_call' = "caller"
    /\ UNCHANGED <<request, permission_mode, audit_log, enf_result, held,
                   first_check, calls, gateVars, modeVars, execVars>>

ForgedEntry ==
    [operation |-> "forged", tier |-> "safe", mode |-> "safe", context |-> 2]

\* the consumer mutates the list get_audit_log returned: log.pop() or
\* log.append(entry); a list detached by clear_audit_log is not the
\* enforcer's any more and its content is not followed
ConsumerMutatesLog ==
    /\ held = "audit_log"
    /\ \/ /\ audit_log # <<>>
          /\ audit_log' = SubSeq(audit_log, 1, Len(audit_log) - 1)
       \/ /\ Len(audit_log) < MaxLog
          /\ audit_log' = Append(audit_log, ForgedEntry)
    /\ last_call' = "consumer"
    /\ UNCHANGED <<request, permission_mode, enf_result, heap, held,
                   first_check, calls, gateVars, modeVars, execVars>>

InitAuditLog ==
    /\ request \in AuditRequests
    /\ InitGate /\ InitMode /\ InitEnforcer /\ InitExec

NextAuditLog ==
    \/ GateCheck
    \/ CheckOperation
    \/ OtherCheckOperation
    \/ GetAuditLog
    \/ ClearAuditLog
    \/ CallerMutatesContext
    \/ ConsumerMutatesLog

SpecAuditLog == InitAuditLog /\ [][NextAuditLog]_vars

-----------------------------------------------------------------------------
(* Properties of the decisions and of the audit log, under SpecAuditLog *)

\* the step is a call of check_operation, of check_permission
CheckOperationStep == last_call' = "check_operation"
CheckPermissionStep == last_call' = "check_permission"

\* the entry the call of this step appended
NewEntry == audit_log'[Len(audit_log')]

\* C11: decisions are idempotent and history-independent: a call of
\* check_permission or of check_operation with the inputs of an earlier call
\* returns the allowed and reason values that call returned, whatever
\* decision calls were made in between; and a decision call changes no state
\* other than appending to the enforcer's audit log: the permission mode and
\* the context mapping it was passed stay as they were.
C11_DecisionsIdempotent ==
    /\ [][(CheckPermissionStep /\ gate_result # None)
              => gate_result' = gate_result]_vars
    /\ [][(/\ CheckOperationStep
           /\ first_check # None
           /\ NewEntry.operation = first_check[1].operation
           /\ heap[NewEntry.context] = first_check[1].context)
              => enf_result'[1] = first_check[1].decision]_vars
    /\ [][CheckOperationStep
              => /\ SubSeq(audit_log', 1, Len(audit_log)) = audit_log
                 /\ UNCHANGED <<permission_mode, heap, request>>]_vars
    /\ [][CheckPermissionStep
              => UNCHANGED <<permission_mode, heap, request, audit_log>>]_vars

C11_Witness ==
    /\ last_call = "check_operation"
    /\ Len(audit_log) = 2
    /\ audit_log[1] = log_entry("delete_file", "dangerous", 2)
    /\ audit_log[2] = log_entry("delete_file", "dangerous", 1)
    /\ request.message = ""
    /\ first_check # None
    /\ first_check[1].operation = "delete_file"
    /\ first_check[1].context = heap[1]
    /\ ~first_check[1].decision.allowed
    /\ enf_result = Some(first_check[1].decision)
    /\ gate_result # None

\* C12: every call of check_operation, allowed or denied and whatever the
\* tier, makes the sequence get_audit_log returns longer by exactly one.
C12_EveryCallLogged ==
    [][CheckOperationStep => Len(audit_log') = Len(audit_log) + 1]_vars

C12_Witness ==
    /\ last_call = "check_operation"
    /\ Len(audit_log) = 2
    /\ audit_log[1].tier = "safe"
    /\ audit_log[2].tier = "forbidden"
    /\ enf_result # None
    /\ ~enf_result[1].allowed
    /\ held = "audit_log"

\* C13: the audit entry appended for a decision records that decision: it
\* holds the operation name and the enforcer's mode, and its tier and its
\* allowed flag equal the tier and the allowed value of the Decision the same
\* check_operation call returned.
C13_EntryRecordsDecision ==
    EnforcerCalled =>
        LET entry    == audit_log[Len(audit_log)]
            decision == enf_result[1]
        IN  /\ entry.operation = request.name
            /\ entry.mode = permission_mode
            /\ "allowed" \in DOMAIN entry
            /\ entry.allowed = decision.allowed
            /\ "tier" \in DOMAIN decision
            /\ entry.tier = decision.tier

\* C14: the audit log is append-only: across check_operation and
\* get_audit_log calls, with no clear_audit_log, every entry already in the
\* log keeps its position and its content (operation, tier, mode and the
\* parameters recorded at decision time), also when the caller later mutates
\* the context mapping it had passed to check_operation.
C14_AppendOnly ==
    [][last_call' \in {"check_operation", "check_permission",
                       "get_audit_log", "caller"}
           => \A i \in 1..Len(audit_log) :
                  /\ i <= Len(audit_log')
                  /\ audit_log'[i] = audit_log[i]
                  /\ heap'[audit_log'[i].context] = heap[audit_log[i].context]
      ]_vars

\* C15: get_audit_log returns a defensive copy or an immutable view: when a
\* consumer mutates the sequence it was returned (appending, removing or
\* editing entries), what later get_audit_log calls on the same enforcer
\* return does not change.
C15_DefensiveCopy ==
    [][last_call' = "consumer" => audit_log' = audit_log]_vars

-----------------------------------------------------------------------------
(* check_operation called from several worker threads on one enforcer *)

\* line 42: the thread enters check_operation and classifies the operation
BeginCall(th, operation, ref) ==
    /\ calls[th].pc = "idle"
    /\ calls' = [calls EXCEPT ![th] =
                    [pc |-> "classified", operation |-> operation,
                     context |-> ref,
                     tier |-> tier_of(operation, heap[ref]),
                     decision |-> None]]
    /\ UNCHANGED <<request, last_call, permission_mode, audit_log, enf_result,
                   heap, held, first_check, gateVars, modeVars, execVars>>

\* the append of a thread that read the list's length while another
\* thread's entry was not yet in it, and stores at that index
LogAttemptLostUpdate(th) ==
    LET c == calls[th]
        entry == log_entry(c.operation, c.tier, c.context)
    IN  /\ c.pc = "classified"
        /\ audit_log' =
               IF \E u \in Threads \ {th} : calls[u].pc = "logged"
               THEN [audit_log EXCEPT ![Len(audit_log)] = entry]
               ELSE Append(audit_log, entry)
        /\ calls' = [calls EXCEPT ![th].pc = "logged"]
        /\ UNCHANGED <<request, last_call, permission_mode, enf_result, heap,
                       held, first_check, gateVars, modeVars, execVars>>

\* line 45, _log_attempt: the entry is built from the call's locals and
\* self.audit_log.append(log_entry) adds it; list.append is one atomic
\* operation of the interpreter
LogAttempt(th) ==
    LET c == calls[th]
    IN  /\ c.pc = "classified"
        /\ audit_log' = Append(audit_log,
                               log_entry(c.operation, c.tier, c.context))
        /\ calls' = [calls EXCEPT ![th].pc = "logged"]
        /\ UNCHANGED <<request, last_call, permission_mode, enf_result, heap,
                       held, first_check, gateVars, modeVars, execVars>>

\* lines 47-75: the thread returns its decision
ReturnDecision(th) ==
    LET c == calls[th]
    IN  /\ c.pc = "logged"
        /\ calls' = [calls EXCEPT
                        ![th].pc = "returned",
                        ![th].decision =
                            Some(check_operation(c.operation, heap[c.context]))]
        /\ UNCHANGED <<request, last_call, permission_mode, audit_log,
                       enf_result, heap, held, first_check, gateVars,
                       modeVars, execVars>>

InitThreads ==
    /\ request \in AuditRequests
    /\ InitGate /\ InitMode /\ InitEnforcer /\ InitExec

NextThreads ==
    \E th \in Threads :
        \/ \E operation \in {request.name} \cup OtherOps, ref \in {1, 2} :
               BeginCall(th, operation, ref)
        \/ LogAttempt(th)
        \/ ReturnDecision(th)

SpecThreads == InitThreads /\ [][NextThreads]_vars

\* the threads whose call has appended its entry, has returned
Logged == {th \in Threads : calls[th].pc \in {"logged", "returned"}}
Completed == {th \in Threads : calls[th].pc = "returned"}

\* the complete record of a thread's call
EntryOf(th) ==
    [operation |-> calls[th].operation, tier |-> calls[th].tier,
     mode |-> permission_mode, context |-> calls[th].context]

\* C16: concurrent appends to one enforcer's audit log are serialized: with
\* several check_operation calls running concurrently on one enforcer and no
\* clear_audit_log, no entry is lost, duplicated or corrupted: N completed
\* calls leave exactly N entries, each the complete record of one of the
\* calls.
C16_ConcurrentAppends ==
    /\ Len(audit_log) = Cardinality(Logged)
    /\ \A th \in Logged :
           Cardinality({i \in 1..Len(audit_log) : audit_log[i] = EntryOf(th)})
               = Cardinality({u \in Logged : EntryOf(u) = EntryOf(th)})
    /\ Completed = Threads => Len(audit_log) = NumThreads

C16_Witness ==
    /\ Completed = Threads
    /\ Len(audit_log) = NumThreads
    /\ calls[1].operation = "format_disk"
    /\ calls[2].operation = "delete_file"
    /\ audit_log[1] = EntryOf(2)
    /\ audit_log[2] = EntryOf(1)
    /\ ~calls[1].decision[1].allowed

-----------------------------------------------------------------------------
(* The permission check on arguments of any type *)

\* a list value, a dict value: v is its repr
ListVal(s) == [t |-> "list", v |-> s]
DictVal(s) == [t |-> "dict", v |-> s]
\* the key is not in the task
Absent == [t |-> "absent", v |-> ""]

AnyParamMaps ==
    { <<>>,
      << <<"path", StrVal("/tmp/a.txt")>> >>,
      << <<"count", IntVal("5")>>, <<"backup", NoneVal>> >>,
      << <<"paths", ListVal("[1, '/etc/passwd']")>> >>,
      << <<"options", DictVal("{'target': '/ETC/Shadow', 'depth': 2}")>> >> }

AnyRequests ==
    [name : {"read_file", "write_file", "delete_file", "format_drive",
             "modify_bios"},
     message : {StrVal(""), StrVal("yesyesyes45"), NoneVal, Absent},
     params : AnyParamMaps]

\* an exception leaving the call
Raised(exception) == [raised |-> exception]

\* the exception check_permission raises, None when it returns:
\* _has_permission_code evaluates message.lower()
check_permission_raises(tool_name, user_message, tool_params) ==
    IF contains_forbidden_path(tool_params) THEN None
    ELSE IF categorize_tool(tool_name) = "DANGEROUS" /\ user_message.t # "str"
    THEN Some("AttributeError: 'NoneType' object has no attribute 'lower'")
    ELSE None

\* what a call of check_permission ends with: the returned value, or the
\* exception
check_permission_outcome(tool_name, user_message, tool_params) ==
    LET exception == check_permission_raises(tool_name, user_message,
                                             tool_params)
    IN  IF exception # None THEN Raised(exception[1])
        ELSE check_permission(tool_name, PyStr(user_message), tool_params)

\* a call of PermissionGate.check_permission with the request's arguments
CheckPermissionAny ==
    /\ request.message # Absent
    /\ gate_result' = Some(check_permission_outcome(request.name,
                                                    request.message,
                                                    request.params))
    /\ last_call' = "check_permission"
    /\ UNCHANGED <<request, gate_mode, normal_result, modeVars, enfVars,
                   execVars>>

\* process_task, lines 45-61, on the task made of the request: the
\* permission check is made before the try block; a permitted task goes on
\* to the dispatch
ProcessTaskPermission ==
    LET user_message == IF request.message = Absent THEN StrVal("")
                        ELSE request.message
        outcome == check_permission_outcome(request.name, user_message,
                                            request.params)
    IN  /\ pc = "idle"
        /\ IF "raised" \in DOMAIN outcome
           THEN /\ result' = Some(outcome)
                /\ pc' = "idle"
           ELSE IF ~outcome.allowed
           THEN /\ result' = Some(Denial(outcome.reason))
                /\ pc' = "idle"
           ELSE /\ result' = None
                /\ pc' = "dispatch"
        /\ UNCHANGED <<files, backups, clock, effects, backup_path, task,
                       request, last_call, gateVars, modeVars, enfVars>>

InitAny ==
    /\ request \in AnyRequests
    /\ InitGate /\ InitMode /\ InitExec
    /\ permission_mode = "safe"
    /\ audit_log = <<>>
    /\ enf_result = None
    /\ heap = <<request.params, OtherContext>>
    /\ held = "none"
    /\ first_check = None
    /\ calls = [th \in Threads |-> IdleCall]
    /\ last_call = ""

NextAny == CheckPermissionAny \/ ProcessTaskPermission

SpecAny == InitAny /\ [][NextAny]_vars

\* C17: the gate never raises: for every operation name, every parameter
\* mapping (numbers, None, lists and nested mappings among the values) and
\* every justification, a missing or None one included, check_permission
\* returns a Decision, and process_task returns a result instead of
\* propagating an exception from its permission check.
C17_GateNeverRaises ==
    /\ gate_result # None => "allowed" \in DOMAIN gate_result[1]
    /\ result # None => "success" \in DOMAIN result[1]

-----------------------------------------------------------------------------
(* Properties of the tool handlers' failures, under SpecExecutor *)

\* the result reports a failure: success = false with an error description
ReportsFailure(r) ==
    /\ "success" \in DOMAIN r
    /\ ~r.success
    /\ "error" \in DOMAIN r
    /\ r.error # ""

\* the step is a call of process_task that returned
ProcessTaskReturned ==
    /\ pc = "idle" /\ pc' = "idle"
    /\ clock' = clock
    /\ result' # None

\* C18: every execution failure inside a tool handler (file not found, not
\* a file, OS permission error, subprocess timeout, non-zero exit status,
\* missing or malformed parameters) is returned by process_task as a result
\* with success = false and an error description; it is neither raised to
\* the caller nor reported with success = true.
C18_FailuresReturned ==
    /\ [](result # None => "success" \in DOMAIN result[1])
    /\ [][(ProcessTaskReturned /\ GateAnswer(task').allowed)
              => LET t == task'
                 IN  /\ (/\ t.tool \in {"read_file", "write_file",
                                        "list_directory", "check_file_exists",
                                        "analyze_code", "run_tests"}
                         /\ ~HasKey(t.params, "path"))
                            => ReportsFailure(result'[1])
                     /\ (/\ t.tool \in {"read_file", "list_directory"}
                         /\ HasKey(t.params, "path")
                         /\ ~Exists(PyStr(Item(t.params, "path"))))
                            => ReportsFailure(result'[1])
                     /\ (t.tool = "run_command" /\ ~HasKey(t.params, "command"))
                            => ReportsFailure(result'[1])]_vars
    /\ []((/\ result # None
           /\ task.tool = "run_command"
           /\ result[1].success)
              => result[1].result.exit_code = 0)

\* the asyncio event loop runs a started handler to its next step: the two
\* steps of _delete_file are taken once they can be
SpecExecutorFair ==
    /\ SpecExecutor
    /\ WF_vars(DeleteFileBackup)
    /\ WF_vars(DeleteFileUnlink)

\* C19: every subprocess call of the dispatcher (run_command, analyze_code,
\* run_tests) enforces a timeout, so process_task eventually returns, with a
\* failure result when the timeout fires, even if the child process never
\* exits.
C19_SubprocessTimeout == (pc # "idle") ~> (pc = "idle")

-----------------------------------------------------------------------------
(* Properties of the reasons, under SpecDecide *)

\* C20: every branch of the decision function produces a non-empty
\* human-readable reason: allowed decisions (SAFE, RISKY permitted by mode,
\* DANGEROUS with the code) carry one just as denials do.
C20_ReasonEverywhere ==
    /\ GateCalled => /\ gate_result[1].reason # None
                     /\ gate_result[1].reason[1] # ""
    /\ EnforcerCalled => enf_result[1].reason # ""

-----------------------------------------------------------------------------
(* Further properties of the decisions, under SpecDecide *)

\* the text mentions the word, in any letter case
Mentions(text, word) == Contains(Lower(word), Lower(text))

\* C21: every denial carries a specific reason that identifies its cause: a
\* DANGEROUS denial's reason mentions the required code, a forbidden-path or
\* forbidden-name denial's reason says the target is forbidden, a RISKY
\* denial's reason names the mode required; no denial has an empty or
\* missing reason.
C21_DenialsExplained ==
    /\ (GateCalled /\ ~GateAllowed) =>
           LET reason == gate_result[1].reason
           IN  /\ reason # None
               /\ reason[1] # ""
               /\ IF \/ contains_forbidden_path(request.params)
                     \/ categorize_tool(request.name) = "FORBIDDEN"
                  THEN Mentions(reason[1], "forbidden")
                  ELSE Mentions(reason[1], "yesyesyes45")
    /\ (EnforcerCalled /\ ~EnforcerAllowed) =>
           LET reason == enf_result[1].reason
           IN  /\ reason # ""
               /\ LoggedTier = "forbidden" => Mentions(reason, "forbidden")
               /\ LoggedTier = "dangerous" => Mentions(reason, "yesyesyes45")
               /\ LoggedTier = "risky" => Mentions(reason, "'risky' or higher")

C21_Witness ==
    /\ GateCalled /\ EnforcerCalled
    /\ request.name = "delete_file"
    /\ request.message = ""
    /\ request.params = TmpFileParams
    /\ gate_result[1] =
           [allowed |-> FALSE,
            reason |-> Some("Dangerous tool requires 'yesyesyes45' code in message")]
    /\ ~EnforcerAllowed
    /\ LoggedTier = "dangerous"

\* the name is in none of the gate's forbidden, dangerous or risky tables
GateUnlisted(name) ==
    name \notin (FORBIDDEN_TOOLS \cup DANGEROUS_TOOLS \cup RISKY_TOOLS)

\* the name matches no forbidden pattern of the enforcer and is in neither
\* its dangerous nor its risky table
EnforcerUnlisted(name) ==
    /\ \A i \in 1..Len(forbidden_patterns) :
           ~Contains(forbidden_patterns[i], Lower(name))
    /\ name \notin (dangerous_ops \cup risky_ops)

\* C22: classification is total over the operation names: every name, the
\* empty string and names in no table included, gets exactly one of the four
\* tiers and a decision; a name in none of the forbidden, dangerous or risky
\* tables is SAFE and, absent a forbidden path, is allowed whatever the
\* message and the mode.
C22_UnlistedNamesSafe ==
    /\ GateCalled =>
           /\ gate_result[1].allowed \in BOOLEAN
           /\ (GateUnlisted(request.name) /\ PlainParams(request.params))
                  => GateAllowed
    /\ EnforcerCalled =>
           /\ LoggedTier \in {"safe", "risky", "dangerous", "forbidden"}
           /\ (EnforcerUnlisted(request.name) /\ PlainParams(request.params))
                  => (LoggedTier = "safe" /\ EnforcerAllowed)

C22_Witness ==
    /\ GateCalled /\ EnforcerCalled
    /\ request.name = ""
    /\ request.message = ""
    /\ request.params = TmpFileParams
    /\ permission_mode = "safe"
    /\ GateAllowed /\ EnforcerAllowed
    /\ LoggedTier = "safe"

-----------------------------------------------------------------------------
(* Mode commands: ModeManager.handle_command *)

MONSTER_KEYWORDS ==
    <<"/monster", "/protocol666", "/unleash", "protocol 666", "/p666">>

HAT_KEYWORDS == <<"/hat", "/security", "/pentest", "/hack">>

NORMAL_KEYWORDS == <<"/normal", "/safe", "/standard", "/reset">>

\* the commands tried: each keyword alone, keywords of two modes together,
\* upper-case letters, and commands without a keyword
Commands ==
    {"/monster", "/protocol666", "/unleash", "protocol 666", "/p666",
     "/hat", "/security", "/pentest", "/hack",
     "/normal", "/safe", "/standard", "/reset",
     "/invalid", "", "go /MONSTER now", "/p666 /normal", "/reset /hack",
     "/Normal"}

\* keyword in message_lower, for some keyword of the list
AnyKeyword(keywords, message_lower) ==
    \E i \in 1..Len(keywords) : Contains(keywords[i], message_lower)

\* detect_mode_switch looking for the normal keywords first
detect_mode_switch_normal_first(user_message) ==
    LET message_lower == Lower(user_message)
    IN  IF AnyKeyword(NORMAL_KEYWORDS, message_lower) THEN Some("normal")
        ELSE IF AnyKeyword(MONSTER_KEYWORDS, message_lower) THEN Some("monster")
        ELSE IF AnyKeyword(HAT_KEYWORDS, message_lower) THEN Some("hat")
        ELSE None

detect_mode_switch(user_message) ==
    LET message_lower == Lower(user_message)
    IN  IF AnyKeyword(MONSTER_KEYWORDS, message_lower) THEN Some("monster")
        ELSE IF AnyKeyword(HAT_KEYWORDS, message_lower) THEN Some("hat")
        ELSE IF AnyKeyword(NORMAL_KEYWORDS, message_lower) THEN Some("normal")
        ELSE None

\* the messages of handle_command; each ends, in the source, with a blank and
\* emoji that a string of this module cannot hold
Activated(mode) ==
    IF mode = "monster"
    THEN "PROTOCOL 666 ACTIVATED. SAFETY SYSTEMS DISENGAGED."
    ELSE IF mode = "hat"
    THEN "HAT MODE ACTIVATED. Security research tools armed. Ethical testing only."
    ELSE "Returning to Normal Mode. Safety systems re-engaged."

\* ModeManager.handle_command, its call of switch_mode included
HandleCommand(c) ==
    LET new_mode == detect_mode_switch(c)
    IN  /\ mode_command' = Some(c)
        /\ IF new_mode = None
           THEN /\ command_result' =
                       Some("Unknown command or no mode switch detected.")
                /\ UNCHANGED <<current_mode, mode_history>>
           ELSE IF current_mode # new_mode[1]
           THEN /\ Len(mode_history) < MaxHistory
                /\ current_mode' = new_mode[1]
                /\ mode_history' = Append(mode_history, new_mode[1])
                /\ command_result' = Some(Activated(new_mode[1]))
           ELSE /\ command_result' =
                       Some("Already in " \o new_mode[1] \o " mode.")
                /\ UNCHANGED <<current_mode, mode_history>>
        /\ UNCHANGED <<request, last_call, gateVars, enfVars, execVars>>

InitCommands == InitExecutor

NextCommands ==
    \/ \E c \in Commands : HandleCommand(c)
    \/ \E new_mode \in Modes : SwitchMode(new_mode)

SpecCommands == InitCommands /\ [][NextCommands]_vars

\* the command holds a keyword of the list, in any letter case
HasKeyword(c, keywords) == AnyKeyword(keywords, Lower(c))

\* C23: handle_command, from whatever mode is current: a command containing a
\* monster keyword leaves the mode MONSTER; a command containing a normal
\* keyword and no monster or HAT keyword leaves it NORMAL; a command with no
\* mode keyword leaves the mode and the mode history unchanged and returns a
\* message containing 'Unknown'.
C23_HandleCommand ==
    [][\A c \in Commands :
          HandleCommand(c) =>
              /\ HasKeyword(c, MONSTER_KEYWORDS) => current_mode' = "monster"
              /\ ( /\ HasKeyword(c, NORMAL_KEYWORDS)
                   /\ ~HasKeyword(c, MONSTER_KEYWORDS)
                   /\ ~HasKeyword(c, HAT_KEYWORDS) ) => current_mode' = "normal"
              /\ ( /\ ~HasKeyword(c, NORMAL_KEYWORDS)
                   /\ ~HasKeyword(c, MONSTER_KEYWORDS)
                   /\ ~HasKeyword(c, HAT_KEYWORDS) ) =>
                     /\ UNCHANGED <<current_mode, mode_history>>
                     /\ Contains("Unknown", command_result'[1])]_vars

C23_Witness ==
    /\ mode_command = Some("/p666 /normal")
    /\ current_mode = "monster"
    /\ mode_history = <<"normal", "hat", "monster">>
    /\ command_result = Some(Activated("monster"))

-----------------------------------------------------------------------------
(* Further properties of the executor, under SpecExecutor *)

\* C24: after any sequence of successful delete_file operations every deleted
\* file has its own backup holding its content: a later deletion never
\* overwrites the backup made for an earlier one, even when the two files
\* share a base name and are deleted within the same clock second.  No step
\* takes away a backup whose content no file holds any more.
C24_BackupsKept ==
    [][\A b \in backups :
           b \in backups' \/ \E p \in Paths : files'[p] = b.content]_vars

\* what a handler does to the filesystem or to the process table
Mutations == {"write", "backup", "delete", "spawn"}

\* C25: no handler that mutates the filesystem or spawns a process is
\* reachable for a tool name the gate classifies SAFE: whenever a dispatched
\* tool has written, copied or deleted a file or started a process, its name
\* is in the gate's RISKY or DANGEROUS table.
C25_MutatorsGated ==
    (effects \cap Mutations # {})
        => categorize_tool(task.tool) \in {"RISKY", "DANGEROUS"}

-----------------------------------------------------------------------------
(* The two implementations compared, under SpecDecide *)

\* the tier PermissionGate assigns to the request: the forbidden-path check,
\* then categorize_tool
GateTier ==
    IF contains_forbidden_path(request.params) THEN "FORBIDDEN"
    ELSE categorize_tool(request.name)

\* C26: the two implementations classify consistently: PermissionGate
\* (categorize_tool with the forbidden-path check) and
\* PermissionEnforcer._classify_operation assign the same tier to every
\* operation name and parameter map.
C26_SameTier ==
    EnforcerCalled => LoggedTier = Lower(GateTier)

-----------------------------------------------------------------------------
(* Decisions compared across inputs, under SpecDecide *)

\* the parameter maps that hold no forbidden path
PlainParamMaps == {p \in ParamMaps : PlainParams(p)}

\* C27: in PermissionGate a DANGEROUS operation is authorised only by the
\* code in the user's message, never by the parameters: two requests with the
\* same tool name and the same user message that differ only in their
\* parameters (one carrying 'yesyesyes45' in a parameter value, say), neither
\* holding a forbidden path, receive the same decision.
C27_ParamsDoNotAuthorise ==
    (GateCalled /\ request.params \in PlainParamMaps) =>
        \A p \in PlainParamMaps :
            gate_of([request EXCEPT !.params = p]) = gate_result[1]

C27_Witness ==
    /\ GateCalled
    /\ request.name = "delete_file"
    /\ request.message = ""
    /\ request.params = << <<"path", StrVal("/tmp/a.txt")>>,
                           <<"content", StrVal("yesyesyes45")>> >>
    /\ TmpFileParams \in PlainParamMaps
    /\ ~GateAllowed

\* C28: the enforcer's tier for an operation name does not depend on the
\* letter case of the name: two names that differ only in case (delete_file
\* and DELETE_FILE, write_file and Write_File), checked with the same
\* context, get the same tier and the same decision.
C28_CaseInsensitiveTier ==
    EnforcerCalled =>
        /\ LoggedTier = tier_of(Lower(request.name), ContextOf(request))
        /\ EnforcerAllowed =
               check_operation(Lower(request.name), ContextOf(request)).allowed

-----------------------------------------------------------------------------
(* The enforcer's modes, under SpecDecide *)

\* BridgeConfig.PERMISSION_LEVELS
PERMISSION_LEVELS == {"safe", "risky", "dangerous", "forbidden"}

validate_permission_level(level) == level \in PERMISSION_LEVELS

\* C29: the enforcer fails closed on its mode: built with a mode string whose
\* lower-case form is neither 'risky' nor 'dangerous' ('forbidden', which
\* validate_permission_level accepts, or a string no one knows) it allows no
\* RISKY-tier operation; in no mode is a DANGEROUS-tier operation allowed
\* without the code.
C29_FailsClosedOnMode ==
    EnforcerCalled =>
        /\ (LoggedTier = "risky" /\ permission_mode \notin {"risky", "dangerous"})
               => ~EnforcerAllowed
        /\ (LoggedTier = "dangerous" /\ ~HasToken(request.message))
               => ~EnforcerAllowed

C29_Witness ==
    /\ EnforcerCalled
    /\ permission_mode = "forbidden"
    /\ validate_permission_level(permission_mode)
    /\ request.name = "write_file"
    /\ LoggedTier = "risky"
    /\ ~EnforcerAllowed

\* C30: the modes are monotone in the enforcer: an operation with a context
\* that is allowed in safe mode is allowed in risky mode, and one allowed in
\* risky mode is allowed in dangerous mode.
C30_ModesMonotone ==
    EnforcerCalled =>
        /\ (permission_mode = "safe" /\ EnforcerAllowed) =>
               check_operation_in("risky", request.name,
                                  ContextOf(request)).allowed
        /\ (permission_mode = "risky" /\ EnforcerAllowed) =>
               check_operation_in("dangerous", request.name,
                                  ContextOf(request)).allowed

C30_Witness ==
    /\ EnforcerCalled
    /\ permission_mode = "risky"
    /\ request.name = "write_file"
    /\ request.params = TmpFileParams
    /\ LoggedTier = "risky"
    /\ EnforcerAllowed
    /\ enf_result[1].reason = "RISKY operation allowed in risky mode"

====
